---- MODULE Spec2Model ----
(***************************************************************************)
(* TinyLink (src/Tinylink.py): a URL shortener written as one script that  *)
(* is executed from top to bottom for every request and every click (a     *)
(* "script run").  Lines 10-11 belong to the script, so each run opens its *)
(* own connection and cursor; what the runs share is the SQLite table      *)
(* `links`.  A run touches the table one SQL statement at a time: a        *)
(* statement is atomic (SQLite serialises the writers), the Python code    *)
(* between two statements of a run is not, and runs interleave there.      *)
(*                                                                         *)
(* The runs under way are kept as a bag of their local states; a run that  *)
(* ends leaves what it showed in `out`.                                    *)
(*                                                                         *)
(* Strings are sequences of one-character strings, so that the regular     *)
(* expression, str.strip and str.startswith are computed, not assumed.     *)
(* Timestamps are readings of one clock; isoformat() keeps their order,    *)
(* so they are kept as the integers read.                                  *)
(***************************************************************************)
EXTENDS Integers, Sequences, FiniteSets, TLC

\* ------------------------------------------------------------------ bounds
MaxClock  == 2      \* the clock reads 1..MaxClock
MaxRuns   == 3      \* script runs started in one behaviour

\* ----------------------------------------------------------- characters
Lower  == {"a","b","c","d","e","f","g","h","i","j","k","l","m",
           "n","o","p","q","r","s","t","u","v","w","x","y","z"}
Upper  == {"A","B","C","D","E","F","G","H","I","J","K","L","M",
           "N","O","P","Q","R","S","T","U","V","W","X","Y","Z"}
Digits == {"0","1","2","3","4","5","6","7","8","9"}

\* string.ascii_letters + string.digits, the class [A-Za-z0-9]
Alphabet == Lower \cup Upper \cup Digits

\* what str.strip() removes
Whitespace == {" ", "\t", "\n", "\r"}

\* Python's None, and a value that is present
None    == <<>>
Some(v) == <<v>>

\* ------------------------------------------------------------- helpers
\* re.fullmatch(CODE_REGEX, code) with CODE_REGEX = ^[A-Za-z0-9]{6,8}$
CodeMin == 6
CodeMax == 8

\* variant: the pattern .{6,8}, the character class forgotten
CODE_REGEX_any_character(code) ==
    /\ Len(code) >= CodeMin
    /\ Len(code) <= CodeMax

CODE_REGEX(code) ==
    /\ Len(code) >= CodeMin
    /\ Len(code) <= CodeMax
    /\ \A i \in 1..Len(code) : code[i] \in Alphabet

RECURSIVE LStrip(_)
LStrip(s) == IF s # <<>> /\ Head(s) \in Whitespace THEN LStrip(Tail(s)) ELSE s

RECURSIVE RStrip(_)
RStrip(s) == IF s # <<>> /\ s[Len(s)] \in Whitespace
             THEN RStrip(SubSeq(s, 1, Len(s) - 1))
             ELSE s

\* str.strip()
strip(s) == RStrip(LStrip(s))

\* str.startswith(prefix)
StartsWith(s, prefix) ==
    /\ Len(s) >= Len(prefix)
    /\ SubSeq(s, 1, Len(prefix)) = prefix

HttpPrefix  == <<"h","t","t","p",":","/","/">>
HttpsPrefix == <<"h","t","t","p","s",":","/","/">>

\* variant: the check only looks for "://" somewhere in the URL
ValidUrl_any_scheme(url) ==
    \E i \in 1..Len(url) : SubSeq(url, i, i + 2) = <<":", "/", "/">>

\* url.startswith(("http://", "https://"))
ValidUrl(url) == StartsWith(url, HttpPrefix) \/ StartsWith(url, HttpsPrefix)

\* -------------------------------------------------------------- inputs
abc123    == <<"a","b","c","1","2","3">>
Zz09aQ    == <<"Z","z","0","9","a","Q">>

\* what a user can type into "Custom short code (optional)"
CustomCodes ==
    { <<>>,                                          \* left empty
      abc123,
      <<" ">> \o abc123 \o <<" ">>,                  \* stripped to abc123
      <<"a","b","c","1","2">> }                      \* too short

\* the same, with more of what the format check has to tell apart
FormatCodes ==
    CustomCodes \cup
    { <<" "," ">>,                                   \* blanks only
      <<"a","b","c","d","e","f","g","h","9">>,       \* too long
      <<"a","b","-","1","2","3">> }                  \* not alphanumeric

\* the strings the bounded random source can produce
RandomPool == { abc123, Zz09aQ, <<"a","b","c","1","2">>, <<"a","b","-","1","2","3">> }

\* what a user can type into "Enter long URL"
Urls ==
    { HttpsPrefix \o <<"x">>,
      HttpPrefix \o <<"y">>,
      <<"f","t","p",":","/","/","x">> }

\* fewer URLs, for where the format of the code is the matter
FormatUrls ==
    { HttpsPrefix \o <<"x">>,
      <<"f","t","p",":","/","/","x">> }

\* codes a request can carry in ?code=
QueryCodes == { abc123, Zz09aQ, <<"a","b","c","1","2">> }

\* -------------------------------------------------------------- state
VARIABLES
    links,      \* the table `links`: a set of rows
    now,        \* the latest reading of the clock
    running,    \* the script runs under way: a bag of their local states
    out,        \* what the run that ended last showed, and that run
    runs,       \* script runs started so far
    hits,       \* history: hits[c] = UPDATEs applied to the row of c since its INSERT
    issued      \* history: issued[c] = the URLs of the creates that returned c
                \* since the last DELETE of c

vars == <<links, now, running, out, runs, hits, issued>>

\* the messages of the page (their dashes written in ASCII)
CodeMustBe    == "Code must be 6-8 alphanumeric characters."
AlreadyExists == "Code already exists."
InvalidUrl    == "Invalid URL. Must start with http:// or https://"
NotFound404   == "404 - Short code not found"
Deleted       == "Deleted!"
StatsNotFound == "Short code not found."

NoOut == [kind |-> "none"]

\* The local state of a script run between two statements:
\*   pc         the statement it executes next
\*   code       the code it works on
\*   url        the target URL it inserts
\*   requested  create_link's `code` argument as passed
\*   link       of the row get_link returned, the part the run goes on to
\*              use: link[1], the target_url
\*   ts         the timestamp it has read and not yet written
Run(at, c, u, req, l, t) ==
    [pc |-> at, code |-> c, url |-> u, requested |-> req, link |-> l, ts |-> t]

\* bags of runs: a function from the runs present to how many of each
Put(bag, r) ==
    IF r \in DOMAIN bag
    THEN [bag EXCEPT ![r] = @ + 1]
    ELSE [x \in DOMAIN bag \cup {r} |-> IF x = r THEN 1 ELSE bag[x]]

Take(bag, r) ==
    IF bag[r] > 1
    THEN [bag EXCEPT ![r] = @ - 1]
    ELSE [x \in DOMAIN bag \ {r} |-> bag[x]]

EmptyBag == [x \in {} |-> 0]

\* what a run shows when it ends
Shown(r, k, v) == [kind |-> k, val |-> v, run |-> r]

\* every code a row can carry
Codes == {strip(c) : c \in FormatCodes} \cup RandomPool \cup QueryCodes

\* `if code:` -- a code that is given and not the empty string
Truthy(arg) == arg # None /\ arg[1] # <<>>

\* ---------------------------------------------------------- statements
\* datetime.utcnow().isoformat(): the readings the clock can give next; time
\* passes between two readings, and the clock is taken not to be set back
utcnow == now..MaxClock

\* generate_code(n): n characters drawn from ascii_letters + digits
DefaultLen == 6

\* variant: one character short, k = n - 1
generate_code_short(n) ==
    { s \in RandomPool : Len(s) = n - 1 /\ \A i \in 1..Len(s) : s[i] \in Alphabet }

generate_code(n) ==
    { s \in RandomPool : Len(s) = n /\ \A i \in 1..Len(s) : s[i] \in Alphabet }

\* the row INSERT INTO links (code, target_url, clicks, created_at) VALUES (?, ?, 0, ?) adds
NewRow(c, u, t) ==
    [code |-> c, target_url |-> u, clicks |-> 0, created_at |-> t, last_clicked |-> None]

\* variant: `code TEXT` without PRIMARY KEY, the INSERT never fails
IntegrityError_never(rows, c) == FALSE

\* code TEXT PRIMARY KEY: the INSERT raises sqlite3.IntegrityError
IntegrityError(rows, c) == \E r \in rows : r.code = c

\* variant: the SELECT without its WHERE clause
get_link_any(rows, c) ==
    IF rows # {} THEN Some(CHOOSE r \in rows : TRUE) ELSE None

\* SELECT code, target_url, clicks, created_at, last_clicked FROM links WHERE code=?
\* followed by fetchone()
get_link(rows, c) ==
    IF \E r \in rows : r.code = c
    THEN Some(CHOOSE r \in rows : r.code = c)
    ELSE None

\* variant: the DELETE without its WHERE clause
delete_link_all(rows, c) == {}

\* DELETE FROM links WHERE code=?
delete_link(rows, c) == { r \in rows : r.code # c }

\* variant: the UPDATE with clicks - 1 in place of clicks + 1
increment_click_down(rows, c, t) ==
    { IF r.code = c THEN [r EXCEPT !.clicks = @ - 1, !.last_clicked = Some(t)] ELSE r
        : r \in rows }

\* variant: the UPDATE sets last_clicked and leaves clicks alone
increment_click_uncounted(rows, c, t) ==
    { IF r.code = c THEN [r EXCEPT !.last_clicked = Some(t)] ELSE r : r \in rows }

\* UPDATE links SET clicks = clicks + 1, last_clicked = ? WHERE code = ?
increment_click(rows, c, t) ==
    { IF r.code = c
      THEN [r EXCEPT !.clicks = @ + 1, !.last_clicked = Some(t)]
      ELSE r : r \in rows }

\* ---------------------------------------------------------------- Init
\* The instant a reading of the clock stands for: readings fall alternately
\* just before a whole second and on it, so both shapes of isoformat() occur
Second(t)      == t \div 2
Microsecond(t) == IF t % 2 = 1 THEN 999999 ELSE 0

\* Decimal digits of n, zero-padded to width
RECURSIVE Padded(_, _)
Padded(n, width) ==
    IF width = 0 THEN <<>>
    ELSE Padded(n \div 10, width - 1)
            \o << <<"0","1","2","3","4","5","6","7","8","9">>[(n % 10) + 1] >>

\* Date, hour and minute are the same for every reading
DayAndMinute ==
    <<"2","0","2","5","-","0","1","-","0","1","T","0","0",":","0","0",":">>

\* datetime.isoformat(): YYYY-MM-DDTHH:MM:SS.ffffff, and without the fraction
\* when the microsecond is 0; this text is what created_at holds
isoformat(t) ==
    DayAndMinute \o Padded(Second(t), 2)
        \o (IF Microsecond(t) = 0 THEN <<>> ELSE <<".">> \o Padded(Microsecond(t), 6))

\* Code points of the characters a timestamp is written with
Ord(ch) ==
    CASE ch = "-" -> 45
      [] ch = "." -> 46
      [] ch = ":" -> 58
      [] ch = "T" -> 84
      [] OTHER    -> 48 + (CHOOSE d \in 0..9 : Padded(d, 1) = <<ch>>)

\* SQLite's BINARY collation on TEXT: bytewise, a proper prefix sorts first
RECURSIVE TextLess(_, _)
TextLess(a, b) ==
    IF a = <<>> THEN b # <<>>
    ELSE IF b = <<>> THEN FALSE
    ELSE IF Head(a) = Head(b) THEN TextLess(Tail(a), Tail(b))
    ELSE Ord(Head(a)) < Ord(Head(b))

\* Every arrangement of the rows, each row once
Arrangements(rows) ==
    { s \in [1..Cardinality(rows) -> rows] :
        \A i, j \in DOMAIN s : i # j => s[i] # s[j] }

\* variant: ORDER BY created_at, the default ascending direction
fetchall_ascending(rows) ==
    { s \in Arrangements(rows) :
        \A i, j \in DOMAIN s :
            i < j => ~TextLess(isoformat(s[j].created_at), isoformat(s[i].created_at)) }

\* SELECT * FROM links ORDER BY created_at DESC, then fetchall(): the results
\* the query may give, rows of equal created_at in either order
fetchall(rows) ==
    { s \in Arrangements(rows) :
        \A i, j \in DOMAIN s :
            i < j => ~TextLess(isoformat(s[i].created_at), isoformat(s[j].created_at)) }

Init ==
    /\ links = {}
    /\ now = 1
    /\ running = EmptyBag
    /\ out = NoOut
    /\ runs = 0
    /\ hits = [c \in Codes |-> 0]
    /\ issued = [c \in Codes |-> <<>>]

\* a script run starts
Begin ==
    /\ runs < MaxRuns
    /\ runs' = runs + 1

\* ------------------------------------------------------------- actions
\* A request with ?code=c: get_link(c).  Not found: the 404 and st.stop().
\* Found: the run goes on to increment_click.
Redirect(c) ==
    /\ Begin
    /\ LET found == get_link(links, c)
       IN  IF found = None
           THEN /\ out' = Shown(Run("get_link", c, <<>>, None, None, 0), "error", NotFound404)
                /\ UNCHANGED running
           ELSE /\ running' = Put(running, Run("inc_now", c, <<>>, None,
                                              Some(found[1].target_url), 0))
                /\ UNCHANGED out
    /\ UNCHANGED <<links, now, hits, issued>>

\* increment_click: datetime.utcnow().isoformat() is evaluated first
IncNow(r) ==
    /\ r.pc = "inc_now"
    /\ \E t \in utcnow :
          /\ now' = t
          /\ running' = Put(Take(running, r), [r EXCEPT !.pc = "inc_update", !.ts = t])
    /\ UNCHANGED <<links, out, runs, hits, issued>>

\* increment_click: the UPDATE and the commit; then the redirect is shown
\* with the URL get_link returned, and st.stop()
IncUpdate(r) ==
    /\ r.pc = "inc_update"
    /\ links' = increment_click(links, r.code, r.ts)
    /\ hits' = IF get_link(links, r.code) # None
               THEN [hits EXCEPT ![r.code] = @ + 1]
               ELSE hits
    /\ running' = Take(running, r)
    /\ out' = Shown(r, "redirect", r.link[1])
    /\ UNCHANGED <<now, runs, issued>>

\* custom_code.strip() if custom_code else None: the `code` argument the
\* "Create" button passes to create_link
Arg(custom_code) == IF custom_code # <<>> THEN Some(strip(custom_code)) ELSE None

\* Dashboard, "Create" pressed: the URL check, the strip of the custom code,
\* create_link's format check and code generation, and the reading of the
\* clock for created_at
CreateClick(u, custom_code) ==
    /\ Begin
    /\ IF ~ValidUrl(u)
       THEN /\ out' = Shown(Run("create", <<>>, u, None, None, 0), "error", InvalidUrl)
            /\ UNCHANGED <<running, now>>
       ELSE LET arg == Arg(custom_code)
            IN  IF Truthy(arg) /\ ~CODE_REGEX(arg[1])
                THEN /\ out' = Shown(Run("create_link", <<>>, u, arg, None, 0), "error", CodeMustBe)
                     /\ UNCHANGED <<running, now>>
                ELSE /\ \E c \in (IF Truthy(arg) THEN {arg[1]} ELSE generate_code(DefaultLen)),
                           t \in utcnow :
                          /\ now' = t
                          /\ running' = Put(running, Run("insert", c, u, arg, None, t))
                     /\ UNCHANGED out
    /\ UNCHANGED <<links, hits, issued>>

\* create_link: the INSERT and the commit, or the IntegrityError
CreateInsert(r) ==
    /\ r.pc = "insert"
    /\ IF IntegrityError(links, r.code)
       THEN /\ out' = Shown(r, "error", AlreadyExists)
            /\ UNCHANGED <<links, hits, issued>>
       ELSE /\ links' = links \cup {NewRow(r.code, r.url, r.ts)}
            /\ hits' = [hits EXCEPT ![r.code] = 0]
            /\ issued' = [issued EXCEPT ![r.code] = Append(@, r.url)]
            /\ out' = Shown(r, "created", r.code)
    /\ running' = Take(running, r)
    /\ UNCHANGED <<now, runs>>

\* Dashboard, "Delete c" pressed: the button is drawn for the rows the
\* listing query returned
DeleteClick(c) ==
    /\ Begin
    /\ \E row \in links : row.code = c
    /\ running' = Put(running, Run("delete", c, <<>>, None, None, 0))
    /\ UNCHANGED <<links, now, out, hits, issued>>

\* variant: the handler looks at the DELETE's row count and reports a miss
delete_shown_checked(r, rows) ==
    IF \E row \in rows : row.code = r.code
    THEN Shown(r, "success", Deleted)
    ELSE Shown(r, "error", "Short code not found.")

\* what the Delete handler shows once delete_link has returned: delete_link
\* returns nothing and raises nothing, whatever the DELETE matched
delete_shown(r, rows) == Shown(r, "success", Deleted)

\* delete_link: the DELETE and the commit; "Deleted!" and st.rerun()
DeleteLink(r) ==
    /\ r.pc = "delete"
    /\ links' = delete_link(links, r.code)
    /\ hits' = [hits EXCEPT ![r.code] = 0]
    /\ issued' = [issued EXCEPT ![r.code] = <<>>]
    /\ running' = Take(running, r)
    /\ out' = delete_shown(r, links)
    /\ UNCHANGED <<now, runs>>

\* Stats page, "Lookup Stats" pressed: get_link(code), then the five fields
\* of the row, or the miss
Stats(c) ==
    /\ Begin
    /\ LET found == get_link(links, c)
           r == Run("stats", c, <<>>, None, None, 0)
       IN  out' = IF found = None
                  THEN Shown(r, "error", StatsNotFound)
                  ELSE Shown(r, "stats", found[1])
    /\ UNCHANGED <<links, now, running, hits, issued>>

\* Dashboard drawn with no button pressed: the table of all links
Dashboard ==
    /\ Begin
    /\ \E rows \in fetchall(links) :
          out' = Shown(Run("dashboard", <<>>, <<>>, None, None, 0), "rows", rows)
    /\ UNCHANGED <<links, now, running, hits, issued>>

Next ==
    \/ Dashboard
    \/ \E c \in QueryCodes : Redirect(c)
    \/ \E c \in QueryCodes : Stats(c)
    \/ \E r \in DOMAIN running : IncNow(r)
    \/ \E r \in DOMAIN running : IncUpdate(r)
    \/ \E u \in Urls, cc \in CustomCodes : CreateClick(u, cc)
    \/ \E r \in DOMAIN running : CreateInsert(r)
    \/ \E c \in Codes : DeleteClick(c)
    \/ \E r \in DOMAIN running : DeleteLink(r)

Spec == Init /\ [][Next]_vars

\* ------------------------------------------------- delete on a kept table
\* tinylink.db is kept between starts of the app (CREATE TABLE IF NOT
\* EXISTS): a start finds the rows that creates and hits of earlier starts
\* left.  The tables below are such tables; the deletes are run on them.
StoredRows ==
    LET fresh == { NewRow(c, u, 1) : c \in {abc123, Zz09aQ}, u \in {v \in Urls : ValidUrl(v)} }
    IN  fresh \cup { [row EXCEPT !.clicks = 1, !.last_clicked = Some(1)] : row \in fresh }

StoredTables ==
    { t \in SUBSET StoredRows : \A x \in t, y \in t : x.code = y.code => x = y }

InitStored ==
    /\ links \in StoredTables
    /\ now = 1
    /\ running = EmptyBag
    /\ out = NoOut
    /\ runs = 0
    /\ hits = [c \in Codes |-> IF \E row \in links : row.code = c
                               THEN (CHOOSE row \in links : row.code = c).clicks
                               ELSE 0]
    /\ issued = [c \in Codes |-> IF \E row \in links : row.code = c
                                 THEN <<(CHOOSE row \in links : row.code = c).target_url>>
                                 ELSE <<>>]

NextDelete ==
    \/ \E c \in Codes : DeleteClick(c)
    \/ \E r \in DOMAIN running : DeleteLink(r)

SpecDelete == InitStored /\ [][NextDelete]_vars

\* ------------------------------------------------------ the creates alone
\* create_link and its caller, with the wider set of custom codes.
NextCreate ==
    \/ \E u \in FormatUrls, cc \in FormatCodes : CreateClick(u, cc)
    \/ \E r \in DOMAIN running : CreateInsert(r)

SpecCreate == Init /\ [][NextCreate]_vars

\* ------------------------------------------------------------ claims
RowsOf(c) == { row \in links : row.code = c }

\* C1: concurrent hits on a code are all counted: the clicks of a row are
\* the number of increment_click calls made on it since it was inserted
\* (initial 0 plus N), whatever the interleaving.
C1_NoLostUpdate ==
    \A row \in links : row.clicks = hits[row.code]

\* C1 witness: two hits on one row overlapped and both are counted: the hit
\* that wrote last had read the clock (1) before the other one read it (2).
C1_TwoOverlappingHitsCounted ==
    /\ runs = 3
    /\ now = 2
    /\ running = EmptyBag
    /\ out.kind = "redirect"
    /\ out.run.ts = 1
    /\ \E row \in links : row.code = out.run.code /\ row.clicks = 2

\* C2 (as stated): a redirect that is shown is one whose hit was counted:
\* at the UPDATE of a run that goes on to redirect, the row is there, its
\* clicks go up by one and its last_clicked becomes the run's timestamp.
C2_HitFullyApplies ==
    [][\A r \in DOMAIN running :
          IncUpdate(r) =>
             \E row \in links : /\ row.code = r.code
                                /\ [row EXCEPT !.clicks = @ + 1,
                                               !.last_clicked = Some(r.ts)] \in links']_vars

\* C3: create_link with a requested code that is in the table fails with
\* "Code already exists." and leaves the table, hence the row with all its
\* five fields, as it was.
C3_ExistingCodeRejected ==
    [][\A r \in DOMAIN running :
          (CreateInsert(r) /\ Truthy(r.requested) /\ RowsOf(r.code) # {}) =>
             /\ out' = Shown(r, "error", AlreadyExists)
             /\ links' = links]_vars

\* C3 witness: a create with a requested code and another URL was refused
\* while the row of that code, already clicked once, is in the table.
C3_RefusedOnClickedRow ==
    /\ out.kind = "error"
    /\ out.val = AlreadyExists
    /\ Truthy(out.run.requested)
    /\ \E row \in links : /\ row.code = out.run.code
                          /\ row.target_url # out.run.url
                          /\ row.clicks = 1

\* C4: of the creates of one code that are not separated by a delete of it,
\* at most one returns the code, and the table then holds exactly one row
\* of that code, with the URL of the create that returned it.
C4_OneCreateWins ==
    \A c \in Codes :
        /\ Len(issued[c]) <= 1
        /\ Len(issued[c]) = 1 =>
              /\ Cardinality(RowsOf(c)) = 1
              /\ \A row \in RowsOf(c) : row.target_url = issued[c][1]

\* C4 witness: two creates of one requested code overlapped: the one refused
\* had read the clock (1) before the one that won read it (2), and its URL
\* is not the one stored.
C4_OverlappingCreateRefused ==
    /\ out.kind = "error"
    /\ out.val = AlreadyExists
    /\ Truthy(out.run.requested)
    /\ out.run.ts = 1
    /\ \E row \in links : /\ row.code = out.run.code
                          /\ row.created_at = 2
                          /\ row.target_url # out.run.url
                          /\ issued[row.code] = <<row.target_url>>

\* the URLs the dashboard lets through, and the custom codes that reach
\* create_link as a `code` argument that does not match ^[A-Za-z0-9]{6,8}$
HttpUrls == { u \in Urls : StartsWith(u, HttpPrefix) \/ StartsWith(u, HttpsPrefix) }

Mismatches ==
    { cc \in FormatCodes :
         /\ Arg(cc) # None
         /\ ~(/\ Len(Arg(cc)[1]) \in 6..8
              /\ \A i \in 1..Len(Arg(cc)[1]) : Arg(cc)[1][i] \in Alphabet) }

\* C5 (as stated): every requested code that does not match the pattern,
\* the empty one included, is refused with the format error, and nothing is
\* stored or left to be stored.
C5_EveryMismatchRefused ==
    [][\A u \in HttpUrls, cc \in Mismatches :
          CreateClick(u, cc) =>
             /\ out' = Shown(Run("create_link", <<>>, u, Arg(cc), None, 0), "error", CodeMustBe)
             /\ running' = running
             /\ links' = links]_vars

\* C5 (amended): every requested code that is not empty and does not match
\* the pattern is refused with the format error, and nothing is stored or
\* left to be stored; an empty requested code is taken as no code: the run
\* goes on to insert a generated code.
C5_NonEmptyMismatchRefused ==
    [][\A u \in HttpUrls, cc \in Mismatches :
          CreateClick(u, cc) =>
             IF Arg(cc)[1] # <<>>
             THEN /\ out' = Shown(Run("create_link", <<>>, u, Arg(cc), None, 0), "error", CodeMustBe)
                  /\ running' = running
                  /\ links' = links
             ELSE /\ out' = out
                  /\ links' = links
                  /\ \E r \in DOMAIN running' :
                        /\ r.pc = "insert"
                        /\ r.requested = Arg(cc)
                        /\ Len(r.code) = 6
                        /\ running' = Put(running, r)]_vars

\* C5 witness: a requested code with a character outside the alphabet was
\* refused while the table holds a row.
C5_BadCharacterRefused ==
    /\ out.kind = "error"
    /\ out.val = CodeMustBe
    /\ out.run.requested # None
    /\ Len(out.run.requested[1]) = 6
    /\ \E i \in 1..6 : out.run.requested[1][i] \notin Alphabet
    /\ links # {}

\* C6: a create with no requested code that succeeds returns a code of 6
\* characters of [A-Za-z0-9], and the table then holds for that code the
\* row get returns: the URL given, clicks 0, last_clicked null.
C6_GeneratedCreate ==
    [][\A r \in DOMAIN running :
          (CreateInsert(r) /\ ~Truthy(r.requested) /\ out'.kind = "created") =>
             /\ Len(out'.val) = 6
             /\ \A i \in 1..Len(out'.val) : out'.val[i] \in Alphabet
             /\ \E row \in links' : row.code = out'.val
             /\ \A row \in links' :
                   row.code = out'.val =>
                      /\ row.target_url = r.url
                      /\ row.clicks = 0
                      /\ row.last_clicked = None]_vars

\* C6 witness: a create without a requested code has returned a code whose
\* row is in the table, not yet clicked.
C6_GeneratedCodeStored ==
    /\ out.kind = "created"
    /\ out.run.requested = None
    /\ \E row \in links : /\ row.code = out.val
                          /\ row.target_url = out.run.url
                          /\ row.clicks = 0

\* C7: a redirect request for a code that is not in the table shows the 404
\* and ends there: no row is created, no row is changed, no UPDATE follows.
C7_AbsentCodeNotFound ==
    [][\A c \in QueryCodes :
          (Redirect(c) /\ RowsOf(c) = {}) =>
             /\ out'.kind = "error"
             /\ out'.val = NotFound404
             /\ out'.run.code = c
             /\ links' = links
             /\ running' = running]_vars

\* C7 witness: the 404 was shown for a well-formed code that has no row
\* while the table holds a row of another code.
C7_NotFoundBesideOtherRow ==
    /\ out.kind = "error"
    /\ out.val = NotFound404
    /\ Len(out.run.code) = 6
    /\ links # {}
    /\ RowsOf(out.run.code) = {}

\* C8: delete_link on a code that has no row shows "Deleted!" like any
\* delete, raises nothing, and leaves the table as it was: a second delete
\* of a code leaves what the first one left.
C8_DeleteAbsentIsNoOp ==
    [][\A r \in DOMAIN running :
          (DeleteLink(r) /\ RowsOf(r.code) = {}) =>
             /\ links' = links
             /\ out' = Shown(r, "success", Deleted)]_vars

\* C8 witness: two deletes have run and rows are left: both were deletes of
\* the same code, the second one on a code without a row, beside the row
\* of another code.
C8_SecondDeleteBesideOtherRow ==
    /\ runs = 2
    /\ running = EmptyBag
    /\ out.kind = "success"
    /\ out.val = Deleted
    /\ RowsOf(out.run.code) = {}
    /\ links # {}

\* C9 (as stated): every UPDATE of increment_click on a row that was clicked
\* before writes a last_clicked that is not earlier than the one it replaces.
C9_LastClickedNeverBackwards ==
    [][\A r \in DOMAIN running :
          IncUpdate(r) =>
             \A row \in links :
                (row.code = r.code /\ row.last_clicked # None) =>
                   r.ts >= row.last_clicked[1]]_vars

\* C10: a create with no requested code that succeeds returns a code that
\* no create has returned since that code was last deleted: two such creates
\* with no delete between them never both return the same code.
C10_GeneratedCodesDistinct ==
    [][\A r \in DOMAIN running :
          (CreateInsert(r) /\ ~Truthy(r.requested) /\ out'.kind = "created") =>
             issued[r.code] = <<>>]_vars

\* C10 witness: two creates without a requested code, one right after the
\* other, drew the same code, and the second did not return it.
C10_SecondDrawRefused ==
    /\ runs = 2
    /\ running = EmptyBag
    /\ out.kind = "error"
    /\ out.val = AlreadyExists
    /\ out.run.requested = None
    /\ out.run.code = Zz09aQ
    /\ issued[Zz09aQ] # <<>>

\* The five columns a row is returned with
Columns == {"code", "target_url", "clicks", "created_at", "last_clicked"}

\* C11: get_link is an exact match. A stats lookup for a code shows the five
\* fields of the row stored under exactly that code when there is one, and
\* "Short code not found." when there is none; it never shows a row of
\* another code, whatever other runs are in flight at that moment.
C11_GetIsExactMatch ==
    [][\A c \in QueryCodes :
          Stats(c) =>
             IF RowsOf(c) = {}
             THEN /\ out'.kind = "error"
                  /\ out'.val = StatsNotFound
             ELSE /\ out'.kind = "stats"
                  /\ DOMAIN out'.val = Columns
                  /\ out'.val.code = c
                  /\ out'.val \in links]_vars

\* C11 witness: a stats lookup showed the row of the code asked for while
\* the table also holds a row of another code.
C11_FoundAmongOtherRows ==
    /\ out.kind = "stats"
    /\ out.val.code = out.run.code
    /\ \E row \in links : row.code # out.run.code

\* C12: a step changes a stored row only in these ways: the DELETE of a run
\* deleting that row's code removes it, and the UPDATE of a run recording a
\* hit on that row's code adds one click and sets last_clicked, leaving code,
\* target_url and created_at as they were. Every other step (a create of
\* another code, a refused create, a lookup, the listing, a delete or a hit
\* on another code) leaves every field of the row as it was.
C12_RowsChangeOnlyByHitOrDelete ==
    [][\A row \in links :
          \/ row \in links'
          \/ \E r \in DOMAIN running :
                /\ r.pc = "delete"
                /\ r.code = row.code
                /\ running' = Take(running, r)
                /\ RowsOf(row.code)' = {}
          \/ \E r \in DOMAIN running :
                /\ r.pc = "inc_update"
                /\ r.code = row.code
                /\ running' = Take(running, r)
                /\ [row EXCEPT !.clicks = @ + 1, !.last_clicked = Some(r.ts)]
                      \in links']_vars

\* C12 witness: the row of one code was deleted and the row of the other
\* code, created before it, is still in the table.
C12_OtherRowKeptAcrossDelete ==
    /\ runs = 3
    /\ out.kind = "success"
    /\ out.val = Deleted
    /\ RowsOf(out.run.code) = {}
    /\ issued[out.run.code] = <<>>
    /\ \E row \in links : row.code # out.run.code /\ issued[row.code] # <<>>

\* ------------------------------------------------ redirects on a kept table
\* Redirect requests and deletes on the kept tables.  A script run that has
\* started runs to its end: lines 74-89 hold no loop and no wait, and each
\* statement of increment_click returns, so the two steps of a hit are
\* weakly fair.
NextRedirect ==
    \/ \E c \in QueryCodes : Redirect(c)
    \/ \E r \in DOMAIN running : IncNow(r)
    \/ \E r \in DOMAIN running : IncUpdate(r)
    \/ \E c \in Codes : DeleteClick(c)
    \/ \E r \in DOMAIN running : DeleteLink(r)

SpecRedirect ==
    /\ InitStored
    /\ [][NextRedirect]_vars
    /\ WF_vars(\E r \in DOMAIN running : IncNow(r))
    /\ WF_vars(\E r \in DOMAIN running : IncUpdate(r))

\* The redirect runs that have looked their code up and not yet answered
Redirecting == { r \in DOMAIN running : r.pc \in {"inc_now", "inc_update"} }

\* C13: a redirect request ends in exactly one of two outcomes. When the
\* lookup finds no row of the code, the request shows the 404 at once and is
\* over. When the lookup finds a row, the request shows nothing yet, goes on
\* as one run holding that row's target_url, and that run ends by showing
\* the redirect to that target_url, once; every such run does end.
C13_RedirectEndsFoundOrNotFound ==
    /\ [][\A c \in QueryCodes :
             Redirect(c) =>
                IF RowsOf(c) = {}
                THEN /\ out'.kind = "error"
                     /\ out'.val = NotFound404
                     /\ running' = running
                ELSE /\ out' = out
                     /\ \E row \in RowsOf(c) :
                           running' = Put(running, Run("inc_now", c, <<>>, None,
                                                       Some(row.target_url), 0))]_vars
    /\ [][\A r \in Redirecting :
             running' # running =>
                \/ /\ r.pc = "inc_now"
                   /\ \E t \in 1..MaxClock :
                         running' = Put(Take(running, r),
                                        [r EXCEPT !.pc = "inc_update", !.ts = t])
                   /\ out' = out
                \/ /\ r.pc = "inc_update"
                   /\ running' = Take(running, r)
                   /\ out'.kind = "redirect"
                   /\ out'.val = r.link[1]
                \/ r \in DOMAIN running' /\ running'[r] >= running[r]]_vars
    /\ (Redirecting # {}) ~> (Redirecting = {})

\* C13 witness: a redirect request found its row and has ended showing the
\* redirect to that row's target_url, the hit recorded on the row.
C13_FoundShown ==
    /\ out.kind = "redirect"
    /\ running = EmptyBag
    /\ \E row \in links : /\ row.code = out.run.code
                          /\ row.target_url = out.val
                          /\ row.last_clicked = Some(out.run.ts)

\* C14: the "Create" button refuses a URL that starts with neither http://
\* nor https://: it shows "Invalid URL. Must start with http:// or https://",
\* create_link is not called and the table stays as it was. Hence every row
\* in the table has a target_url that starts with http:// or https://.
C14_InvalidUrlRejected ==
    /\ [](\A row \in links :
             \/ StartsWith(row.target_url, HttpPrefix)
             \/ StartsWith(row.target_url, HttpsPrefix))
    /\ [][\A u \in Urls \ HttpUrls, custom_code \in CustomCodes :
             CreateClick(u, custom_code) =>
                /\ out'.kind = "error"
                /\ out'.val = InvalidUrl
                /\ out'.run.url = u
                /\ links' = links
                /\ running' = running]_vars

\* C14 witness: a create with an ftp:// URL was refused as an invalid URL
\* while the table holds a row made by an earlier create.
C14_FtpUrlRefused ==
    /\ out.kind = "error"
    /\ out.val = InvalidUrl
    /\ StartsWith(out.run.url, <<"f","t","p">>)
    /\ links # {}
    /\ running = EmptyBag

\* C15: the dashboard's listing holds every row of the table, each exactly
\* once, and no row comes before a row that was created later than it.
C15_ListingCompleteAndOrdered ==
    [][Dashboard =>
          /\ out'.kind = "rows"
          /\ Len(out'.val) = Cardinality(links)
          /\ { out'.val[i] : i \in DOMAIN out'.val } = links
          /\ \A i, j \in DOMAIN out'.val :
                i < j => out'.val[i].created_at >= out'.val[j].created_at]_vars

\* C15 witness: the listing showed two rows created at different instants,
\* the later one first.
C15_NewerRowListedFirst ==
    /\ out.kind = "rows"
    /\ Len(out.val) = 2
    /\ out.val[1].created_at > out.val[2].created_at
    /\ out.val[1].code # out.val[2].code

\* C16: when create_link is called without a code and the code it generated
\* already has a row, its one INSERT fails, the run shows "Code already
\* exists." and ends: no second code is drawn, no second INSERT is made, and
\* the table, the existing row included, stays as it was.
C16_GeneratedCollisionFailsOnce ==
    [][\A r \in DOMAIN running :
          (CreateInsert(r) /\ ~Truthy(r.requested) /\ RowsOf(r.code) # {}) =>
             /\ out'.kind = "error"
             /\ out'.val = AlreadyExists
             /\ out'.run = r
             /\ running' = Take(running, r)
             /\ runs' = runs
             /\ links' = links]_vars

\* C16 witness: a create without a requested code drew the code of a row
\* that holds another URL and a click, and was refused; the row is as it was.
C16_CollisionOnClickedRow ==
    /\ out.kind = "error"
    /\ out.val = AlreadyExists
    /\ out.run.requested = None
    /\ running = EmptyBag
    /\ \E row \in links : /\ row.code = out.run.code
                          /\ row.target_url # out.run.url
                          /\ row.clicks = 1

\* ------------------------------------------ delete, then get, on a kept table
\* Deletes and stats lookups on the kept tables; no create takes part.
NextDeleteGet ==
    \/ \E c \in Codes : DeleteClick(c)
    \/ \E r \in DOMAIN running : DeleteLink(r)
    \/ \E c \in QueryCodes : Stats(c)

SpecDeleteGet == InitStored /\ [][NextDeleteGet]_vars

\* C17: the DELETE of a code that has a row removes that row and no other:
\* every row of another code is in the table afterwards exactly as before,
\* and no row is added. A lookup of a code made after its delete, with no
\* create having returned that code since, shows "Short code not found.".
C17_DeleteRemovesThatCodeOnly ==
    /\ [][\A r \in DOMAIN running :
             (DeleteLink(r) /\ RowsOf(r.code) # {}) =>
                /\ RowsOf(r.code)' = {}
                /\ links' \subseteq links
                /\ \A row \in links : row.code # r.code => row \in links']_vars
    /\ [][\A c \in QueryCodes :
             (Stats(c) /\ issued[c] = <<>>) =>
                /\ out'.kind = "error"
                /\ out'.val = StatsNotFound]_vars

\* C17 witness: the row of abc123 was deleted, the lookup of abc123 that
\* followed showed "Short code not found.", and the clicked row of Zz09aQ is
\* still in the table.
C17_DeletedThenNotFound ==
    /\ runs = 2
    /\ running = EmptyBag
    /\ out.kind = "error"
    /\ out.val = StatsNotFound
    /\ out.run.code = abc123
    /\ \E row \in links : row.code = Zz09aQ /\ row.clicks = 1

\* C18: in every reachable state every code in the table is 6 to 8
\* characters long, all of them ASCII letters or digits, and no two rows of
\* the table have the same code.
C18_CodesWellFormedAndUnique ==
    \A row \in links :
        /\ Len(row.code) \in CodeMin..CodeMax
        /\ \A i \in 1..Len(row.code) : row.code[i] \in Alphabet
        /\ \A other \in links : other.code = row.code => other = row

\* C18 witness: the table holds two rows, and a third create, asking for
\* the code of one of them, was refused.
C18_TwoRowsAndDuplicateRefused ==
    /\ Cardinality(links) = 2
    /\ running = EmptyBag
    /\ out.kind = "error"
    /\ out.val = AlreadyExists
    /\ RowsOf(out.run.code) # {}

\* C19: clicks of a row is a natural number in every reachable state; a row
\* whose code had no row in the state before starts with clicks 0; and from
\* one state to the next the clicks of a row that stays in the table does
\* not go down.
C19_ClicksStartAtZeroNeverDecrease ==
    /\ [](\A row \in links : row.clicks \in Nat)
    /\ [][\A after \in links' :
             IF RowsOf(after.code) = {}
             THEN after.clicks = 0
             ELSE \A before \in RowsOf(after.code) :
                     after.clicks >= before.clicks]_vars

\* C19 witness: a row created with no clicks has been hit twice and holds
\* two clicks.
C19_RowClickedTwice ==
    /\ running = EmptyBag
    /\ out.kind = "redirect"
    /\ \E row \in links : row.code = out.run.code /\ row.clicks = 2

\* C20: in every reachable state, a row has no last_clicked exactly when its
\* clicks is 0.
C20_LastClickedNullIffNoClicks ==
    \A row \in links : (row.last_clicked = None) <=> (row.clicks = 0)

\* C20 witness: the table holds a row never hit, with no last_clicked, and a
\* row hit once, with the instant of that hit as its last_clicked.
C20_ClickedAndUnclickedRows ==
    /\ running = EmptyBag
    /\ out.kind = "redirect"
    /\ \E row \in links : /\ row.code = out.run.code
                          /\ row.clicks = 1
                          /\ row.last_clicked = Some(out.run.ts)
    /\ \E row \in links : /\ row.code # out.run.code
                          /\ row.clicks = 0
                          /\ row.last_clicked = None

====
